---- MODULE Spec2Model ----
(***************************************************************************)
(* create_icon.py: the script builds the literal svg_content, opens        *)
(* 'appicon.svg' in text mode 'w', writes the literal, leaves the with     *)
(* block (which closes the file) and prints "Icon SVG created".            *)
(*                                                                         *)
(* The model follows one run through the system calls it makes (open with  *)
(* truncation, the buffered writer's write loop at close, close) and the   *)
(* file system they act on, for several runs of the script in the same     *)
(* working directory: one after the other (Spec), one after the other     *)
(* with other programs rewriting the file in between (SpecEnv), or two     *)
(* runs interleaved (SpecConc).                                            *)
(***************************************************************************)
EXTENDS Naturals, Sequences, FiniteSets

\* Number of runs of the script that a behaviour holds.
MaxRuns == 2

Runs == 1..MaxRuns

----------------------------------------------------------------------------
\* Text and bytes

NL == "\n"
CR == "\r"
\* A byte of a hole left by writing past the end of a file.
NUL == "NUL"

\* The literal of lines 4-14, one element per line body and one per line
\* break; the literal has 11 lines and ends without a line break.
svg_content ==
    << "<?xml version=1.0 encoding=UTF-8?>", NL,
       "<svg width=1024 height=1024 viewBox=0 0 1024 1024 xmlns=...>", NL,
       "  <defs>", NL,
       "    <linearGradient id=grad x1=0% y1=0% x2=100% y2=100%>", NL,
       "      <stop offset=0% style=stop-color:#0088cc;stop-opacity:1 />", NL,
       "      <stop offset=100% style=stop-color:#00a8ff;stop-opacity:1 />", NL,
       "    </linearGradient>", NL,
       "  </defs>", NL,
       "  <rect width=1024 height=1024 rx=230 fill=url(#grad)/>", NL,
       "  <path d=M512 256 L768 512 L512 768 L512 600 L256 600 L256 424 L512 424 Z fill=white transform=translate(0, 50)/>", NL,
       "</svg>" >>

\* Mutant of Target: the wrong file name.
TargetOther == "notes.txt"

\* The file name of line 16, relative to the working directory.
Target == "appicon.svg"

\* The text of line 19.
Confirmation == "Icon SVG created"

\* os.linesep of the platforms CPython runs on.
LineSeps == { <<NL>>, <<CR, NL>> }

\* Text mode with newline=None: on writing, every "\n" of the text becomes
\* os.linesep; every other character of this (pure ASCII) literal is one
\* byte in any ASCII-compatible encoding.
RECURSIVE Encode(_, _)
Encode(text, sep) ==
    IF text = <<>> THEN <<>>
    ELSE (IF Head(text) = NL THEN sep ELSE <<Head(text)>>)
         \o Encode(Tail(text), sep)

IsPrefix(s, t) == Len(s) <= Len(t) /\ s = SubSeq(t, 1, Len(s))

----------------------------------------------------------------------------
\* The file system of the working directory

Files == { "appicon.svg", "notes.txt" }

File(data) == [exists |-> TRUE, data |-> data]
Absent == [exists |-> FALSE, data |-> <<>>]

\* pwrite: data lands at offset pos (0-based); a gap between the end of the
\* file and pos reads as NUL bytes.
WriteAt(content, pos, data) ==
    LET end == pos + Len(data)
        len == IF end > Len(content) THEN end ELSE Len(content)
    IN  [i \in 1..len |->
            IF i > pos /\ i <= end THEN data[i - pos]
            ELSE IF i <= Len(content) THEN content[i]
            ELSE NUL]

\* What appicon.svg may hold before a run: nothing, an empty file, a short
\* file, a file longer than the icon, the icon followed by other bytes.
LongLen == Len(Encode(svg_content, <<CR, NL>>)) + 1
PriorContents(sep) ==
    { Absent,
      File(<<>>),
      File(<<"old">>),
      File([i \in 1..LongLen |-> "old"]),
      File(Encode(svg_content, sep) \o <<"old">>) }

----------------------------------------------------------------------------
\* The statements of the script

\* Mutants of Mode: append mode, update mode.
ModeAppend == "a"
ModeUpdate == "r+"

\* The mode of the open call of line 16.
Mode == "w"

\* Python's open modes as flags of the open system call: 'w' is
\* O_WRONLY|O_CREAT|O_TRUNC, 'a' is O_WRONLY|O_CREAT|O_APPEND, 'r+' is O_RDWR.
Creates(mode) == mode \in {"w", "a"}
Truncates(mode) == mode = "w"
Appends(mode) == mode = "a"

\* Mutant of Opened: the truncation is lost.
OpenedKeepingOld(mode, old) == old

\* The data of the file once open has succeeded.
Opened(mode, old) == IF Truncates(mode) THEN <<>> ELSE old

\* Where a write system call puts its bytes: at the descriptor's own
\* offset, or with O_APPEND at the end of the file.
WriteOffset(mode, pos, content) == IF Appends(mode) THEN Len(content) ELSE pos

\* The sizes a write system call given the bytes b may take: at least one
\* byte, at most all of them. The bytes are modelled one per element of
\* the text, so a short write ends between two elements of the text, not
\* inside a line body and not inside a two-byte line break.
WriteSizes(b) ==
    { n \in 1..Len(b) : ~(b[n] = CR /\ n < Len(b) /\ b[n + 1] = NL) }

\* Mutant of Remaining: the result of the write system call is ignored.
RemainingIgnoringShort(b, n) == <<>>

\* The buffered writer's flush loop drops the n bytes the system call took
\* and writes the rest again.
Remaining(b, n) == SubSeq(b, n + 1, Len(b))

\* Mutant of WithExit: a plain open() without with, never closed.
NoWithExit(h) == h

\* Leaving the with block closes the file, on the normal and on the
\* exceptional path.
WithExit(h) == FALSE

\* Mutant of Uncaught: the OSError is caught and the script goes on.
Swallowed == "closed"

\* The script has no try/except: an OSError ends the run.
Uncaught == "failed"

\* Mutant of PrintAt: print(...) indented into the with block.
PrintInsideWith == "flushing"

\* print(...) is the statement after the with block.
PrintAt == "closed"

VARIABLES
    linesep,  \* os.linesep of the platform
    fs,       \* file name -> [exists, data]
    pc,       \* run -> where the run is
    buf,      \* run -> bytes buffered in the file object, not yet written
    pos,      \* run -> offset of the run's file descriptor (0 when it has none)
    handle,   \* run -> the run holds an open file descriptor
    stdout,   \* run -> lines printed
    err,      \* run -> the system call that raised OSError, or "none"
    pre,      \* run -> the file system when the run started
    final     \* run -> the file system when the run printed its confirmation

vars == <<linesep, fs, pc, buf, pos, handle, stdout, err, pre, final>>

SvgBytes == Encode(svg_content, linesep)

\* The value of pre and final before anything is recorded.
NoSnapshot == [f \in Files |-> Absent]

Terminated(p) == pc[p] \in {"done", "failed"}

Init ==
    /\ linesep \in LineSeps
    /\ \E prior \in PriorContents(linesep) :
          fs = [f \in Files |-> IF f = Target THEN prior ELSE File(<<"note">>)]
    /\ pc = [p \in Runs |-> "idle"]
    /\ buf = [p \in Runs |-> <<>>]
    /\ pos = [p \in Runs |-> 0]
    /\ handle = [p \in Runs |-> FALSE]
    /\ stdout = [p \in Runs |-> <<>>]
    /\ err = [p \in Runs |-> "none"]
    /\ pre = [p \in Runs |-> NoSnapshot]
    /\ final = [p \in Runs |-> NoSnapshot]

\* The interpreter starts and runs lines 1-14 (import os, the literal).
Begin(p) ==
    /\ pc[p] = "idle"
    /\ pc' = [pc EXCEPT ![p] = "start"]
    /\ UNCHANGED <<linesep, fs, buf, pos, handle, stdout, err>>

\* Runs one after the other: run p starts once every earlier run has ended.
Start(p) ==
    /\ \A q \in Runs : q < p => Terminated(q)
    /\ Begin(p)

\* Two runs started at any time, also while the other one is under way.
StartConc(p) ==
    /\ p \in {1, 2}
    /\ Begin(p)

\* Line 16, open succeeds: the file exists and is empty, offset 0.
Open(p) ==
    /\ pc[p] = "start"
    /\ fs[Target].exists \/ Creates(Mode)
    /\ fs' = [fs EXCEPT ![Target] = File(Opened(Mode, fs[Target].data))]
    /\ pos' = [pos EXCEPT ![p] = 0]
    /\ handle' = [handle EXCEPT ![p] = TRUE]
    /\ pc' = [pc EXCEPT ![p] = "opened"]
    /\ UNCHANGED <<linesep, buf, stdout, err>>

\* Line 16, open raises OSError (no permission, no space, ...): nothing is
\* created or truncated, no descriptor is held.
OpenFail(p) ==
    /\ pc[p] = "start"
    /\ err' = [err EXCEPT ![p] = "open"]
    /\ pc' = [pc EXCEPT ![p] = Uncaught]
    /\ UNCHANGED <<linesep, fs, buf, pos, handle, stdout>>

\* Line 17, f.write: the text is translated and encoded into the file
\* object's buffer (it is smaller than the buffer, so no system call yet).
Write(p) ==
    /\ pc[p] = "opened"
    /\ buf' = [buf EXCEPT ![p] = Encode(svg_content, linesep)]
    /\ pc' = [pc EXCEPT ![p] = "flushing"]
    /\ UNCHANGED <<linesep, fs, pos, handle, stdout, err>>

\* End of the with block, close() flushes: one write system call takes the
\* first n buffered bytes (a short write when n < Len(buf)).
RawWrite(p) ==
    /\ pc[p] = "flushing"
    /\ buf[p] # <<>>
    /\ \E n \in WriteSizes(buf[p]) :
          LET at == WriteOffset(Mode, pos[p], fs[Target].data)
          IN  /\ fs' = [fs EXCEPT ![Target] =
                           File(WriteAt(fs[Target].data, at, SubSeq(buf[p], 1, n)))]
              /\ pos' = [pos EXCEPT ![p] = at + n]
              /\ buf' = [buf EXCEPT ![p] = Remaining(buf[p], n)]
    /\ UNCHANGED <<linesep, pc, handle, stdout, err>>

\* A write system call raises OSError: close() still closes the descriptor,
\* the buffered bytes are lost, the exception leaves the with block.
RawWriteFail(p) ==
    /\ pc[p] = "flushing"
    /\ buf[p] # <<>>
    /\ err' = [err EXCEPT ![p] = "write"]
    /\ buf' = [buf EXCEPT ![p] = <<>>]
    /\ handle' = [handle EXCEPT ![p] = WithExit(handle[p])]
    /\ pc' = [pc EXCEPT ![p] = Uncaught]
    /\ pos' = [pos EXCEPT ![p] = 0]
    /\ UNCHANGED <<linesep, fs, stdout>>

\* Everything is written: the descriptor is closed, the with block is left.
Close(p) ==
    /\ pc[p] = "flushing"
    /\ buf[p] = <<>>
    /\ handle' = [handle EXCEPT ![p] = WithExit(handle[p])]
    /\ pc' = [pc EXCEPT ![p] = "closed"]
    /\ pos' = [pos EXCEPT ![p] = 0]
    /\ UNCHANGED <<linesep, fs, buf, stdout, err>>

\* The close system call raises OSError: the descriptor is released all the
\* same, the exception leaves the with block.
CloseFail(p) ==
    /\ pc[p] = "flushing"
    /\ buf[p] = <<>>
    /\ err' = [err EXCEPT ![p] = "close"]
    /\ handle' = [handle EXCEPT ![p] = WithExit(handle[p])]
    /\ pc' = [pc EXCEPT ![p] = Uncaught]
    /\ pos' = [pos EXCEPT ![p] = 0]
    /\ UNCHANGED <<linesep, fs, buf, stdout>>

\* Line 19.
PrintDone(p) ==
    /\ pc[p] = PrintAt
    /\ stdout' = [stdout EXCEPT ![p] = Append(stdout[p], Confirmation)]
    /\ pc' = [pc EXCEPT ![p] = "done"]
    /\ UNCHANGED <<linesep, fs, buf, pos, handle, err>>

\* Run p starts once every earlier run has ended, in a working directory
\* where other programs have meanwhile left appicon.svg in any state.
StartFrom(p) ==
    /\ pc[p] = "idle"
    /\ \A q \in Runs : q < p => Terminated(q)
    /\ \E c \in PriorContents(linesep) : fs' = [fs EXCEPT ![Target] = c]
    /\ pc' = [pc EXCEPT ![p] = "start"]
    /\ UNCHANGED <<linesep, buf, pos, handle, stdout, err>>

Step(p) ==
    \/ Open(p)
    \/ OpenFail(p)
    \/ Write(p)
    \/ RawWrite(p)
    \/ RawWriteFail(p)
    \/ Close(p)
    \/ CloseFail(p)
    \/ PrintDone(p)

\* History: the file system as run p found it when it started.
RecordPre(p) ==
    pre' = IF pc[p] = "idle" /\ pc'[p] # "idle"
           THEN [pre EXCEPT ![p] = fs'] ELSE pre

\* History: the file system as it was when run p printed its confirmation.
RecordFinal(p) ==
    final' = IF pc[p] # "done" /\ pc'[p] = "done"
             THEN [final EXCEPT ![p] = fs'] ELSE final

Record(p) == RecordPre(p) /\ RecordFinal(p)

Next == \E p \in Runs : (Start(p) \/ Step(p)) /\ Record(p)

NextEnv == \E p \in Runs : (StartFrom(p) \/ Step(p)) /\ Record(p)

\* (what a run found at its start is not recorded here: no property of
\* interleaved runs reads it)
NextConc ==
    \E p \in Runs :
        (StartConc(p) \/ Step(p)) /\ RecordFinal(p) /\ UNCHANGED pre

\* Runs in succession.
Spec == Init /\ [][Next]_vars

\* Runs in succession, each from an arbitrary state of appicon.svg.
SpecEnv == Init /\ [][NextEnv]_vars

\* Two runs interleaved at the granularity of their system calls.
SpecConc == Init /\ [][NextConc]_vars

----------------------------------------------------------------------------
\* Properties

\* Reading a file back as text (universal newlines): "\r\n", "\r" and
\* "\n" all read as "\n".
RECURSIVE Decode(_)
Decode(bytes) ==
    IF bytes = <<>> THEN <<>>
    ELSE IF Head(bytes) = CR
         THEN IF Len(bytes) >= 2 /\ bytes[2] = NL
              THEN <<NL>> \o Decode(Tail(Tail(bytes)))
              ELSE <<NL>> \o Decode(Tail(bytes))
         ELSE <<Head(bytes)>> \o Decode(Tail(bytes))

Done(p) == pc[p] = "done"

\* No run after p has started.
Latest(p) == \A q \in Runs : q > p => pc[q] = "idle"

Icon == File(SvgBytes)

\* A file that holds some but not all of the icon's bytes, and nothing else.
Partial(file) ==
    /\ file.exists
    /\ file.data # <<>>
    /\ file.data # SvgBytes
    /\ IsPrefix(file.data, SvgBytes)

\* C1: whatever appicon.svg held when a run started, when the run has
\* printed its confirmation the file exists and holds exactly the encoded
\* literal, which reads back as the literal: no old byte survives and
\* nothing follows.
C1_ExactContent ==
    \A p \in Runs :
        Done(p) =>
            /\ final[p][Target].exists
            /\ final[p][Target].data = Encode(svg_content, linesep)
            /\ Decode(final[p][Target].data) = svg_content

\* A run has completed on a file that was longer than the icon.
C1_Witness ==
    \E p \in Runs :
        Done(p) /\ Len(pre[p][Target].data) > Len(SvgBytes)

\* C2: a run in which open, a write or close raised OSError has ended in
\* that error and has printed nothing.
C2_NoConfirmationOnError ==
    \A p \in Runs :
        err[p] # "none" => pc[p] = "failed" /\ stdout[p] = <<>>

\* One run failed in open and another one in a write.
C2_Witness ==
    \E p, q \in Runs : err[p] = "open" /\ err[q] = "write"

\* C3: a run's standard output is empty until the run is done and then is
\* the one line "Icon SVG created"; once it is printed the run holds no
\* descriptor and no unwritten bytes, and (until a later run starts)
\* appicon.svg holds the whole icon.
C3_ConfirmationLast ==
    \A p \in Runs :
        /\ Done(p) <=> stdout[p] # <<>>
        /\ stdout[p] # <<>> =>
              /\ stdout[p] = <<Confirmation>>
              /\ ~handle[p]
              /\ buf[p] = <<>>
              /\ Latest(p) => fs[Target] = Icon

\* A run that found other content in appicon.svg has printed its
\* confirmation, and no later run has started.
C3_Witness ==
    \E p \in Runs :
        /\ stdout[p] = <<Confirmation>>
        /\ Latest(p)
        /\ pre[p][Target].exists /\ pre[p][Target] # Icon

\* C4: a run that has ended, in success or in an error, holds no open
\* descriptor.
C4_HandleReleased ==
    \A p \in Runs : Terminated(p) => ~handle[p]

\* A run has ended in an error of a write after part of the icon was
\* written, and a run has ended in success.
C4_Witness ==
    /\ \E p \in Runs : err[p] = "write" /\ Latest(p) /\ Partial(fs[Target])
    /\ \E p \in Runs : Done(p)

\* C5: when two runs in succession both succeed, the file system after the
\* second is the file system after the first.
C5_Idempotent ==
    \A p, q \in Runs :
        (q = p + 1 /\ Done(p) /\ Done(q)) => final[q] = final[p]

\* Two runs in succession have succeeded, the first one on a file with
\* other content.
C5_Witness ==
    \E p, q \in Runs :
        /\ q = p + 1 /\ Done(p) /\ Done(q)
        /\ pre[p][Target].exists /\ pre[p][Target] # Icon
        /\ pre[q][Target] = Icon

\* C6: any two runs that succeed leave the same appicon.svg and print the
\* same, whatever appicon.svg held when each of them started.
C6_Deterministic ==
    \A p, q \in Runs :
        (Done(p) /\ Done(q)) =>
            /\ final[p][Target] = final[q][Target]
            /\ stdout[p] = stdout[q]

\* Two runs have succeeded, one started on a file longer than the icon and
\* one without the file.
C6_Witness ==
    \E p, q \in Runs :
        /\ Done(p) /\ Done(q)
        /\ Len(pre[p][Target].data) > Len(SvgBytes)
        /\ ~pre[q][Target].exists

\* C7: when a run fails and the next run succeeds, the file system is what
\* one successful run would have made of the file system the failed run
\* started on: appicon.svg holds the icon, everything else is as it was.
C7_RetryAfterFailure ==
    \A p, q \in Runs :
        (q = p + 1 /\ pc[p] = "failed" /\ Done(q)) =>
            final[q] = [pre[p] EXCEPT ![Target] = Icon]

\* A run failed in a write leaving part of the icon, and the next run
\* succeeded.
C7_Witness ==
    \E p, q \in Runs :
        /\ q = p + 1 /\ err[p] = "write" /\ Done(q)
        /\ Partial(pre[q][Target])
        /\ pre[p][Target].exists /\ pre[p][Target].data # <<>>

\* C8: a step of a run changes no file other than appicon.svg, gives
\* appicon.svg only content taken from the literal (nothing of what any
\* file held before), and adds to standard output only the confirmation
\* line.
C8_Frame ==
    [][ /\ \A f \in Files \ {"appicon.svg"} : fs'[f] = fs[f]
        /\ fs'["appicon.svg"] # fs["appicon.svg"] =>
              /\ fs'["appicon.svg"].exists
              /\ IsPrefix(fs'["appicon.svg"].data, SvgBytes)
        /\ \A p \in Runs :
              \/ stdout'[p] = stdout[p]
              \/ stdout'[p] = Append(stdout[p], Confirmation)
      ]_vars

\* A run has replaced other content of appicon.svg by the icon and printed.
C8_Witness ==
    \E p \in Runs :
        /\ Done(p) /\ Latest(p)
        /\ pre[p]["appicon.svg"].exists /\ pre[p]["appicon.svg"].data # <<>>
        /\ fs["appicon.svg"] # pre[p]["appicon.svg"]
        /\ stdout[p] # <<>>

\* C9: during the latest run, appicon.svg is what the run found until its
\* open has succeeded (also when open failed), and from then on a prefix
\* of the icon, also when the run fails later.
C9_OldOrPrefix ==
    \A p \in Runs :
        (pc[p] # "idle" /\ Latest(p)) =>
            IF pc[p] = "start" \/ err[p] = "open"
            THEN fs[Target] = pre[p][Target]
            ELSE fs[Target].exists /\ IsPrefix(fs[Target].data, SvgBytes)

\* A run on a file with other content failed in a write: the old content
\* is gone and part of the icon is there.
C9_Witness ==
    \E p \in Runs :
        /\ Latest(p) /\ err[p] = "write"
        /\ Len(pre[p][Target].data) > Len(SvgBytes)
        /\ Partial(fs[Target])

\* C10: once two interleaved runs have both succeeded, appicon.svg holds
\* exactly the icon.
C10_LastWriterWins ==
    (Done(1) /\ Done(2)) => fs[Target] = Icon

\* Both runs have succeeded, and when the first of them printed, the file
\* did not hold the icon because the other run was still writing.
C10_Witness ==
    /\ Done(1) /\ Done(2)
    /\ final[1][Target] # Icon

====
